---- MODULE Spec2Model ----
(***************************************************************************)
(* WEASEL_V2 and MUSE_V2 (weasel/classification/dictionary_based): the     *)
(* fit / _transform_words life cycle of one classifier object, the         *)
(* parallel member tasks of a fit, the configuration sampler               *)
(* (_parallel_fit) and MUSE's first-order-difference augmentation.         *)
(*                                                                         *)
(* Data is carried by its shape (n_instances, channels, series_length);    *)
(* the SFADilation transformer, which is not part of the two modules, is   *)
(* carried by the number of word columns it learns.  Ensemble sizes are    *)
(* modelled at 1/50 scale (50, 100, 150 members become 1, 2, 3 tasks).     *)
(***************************************************************************)
EXTENDS Integers, Sequences, FiniteSets, TLC

VARIABLES
    variant,                \* "WEASEL" or "MUSE": the class of the object
    min_window,             \* constructor argument
    init_max_window,        \* constructor argument max_window (MUSE), 84 for WEASEL
    random_state,           \* constructor argument: [isNone, value]
    use_first_differences,  \* WEASEL: sequence of BOOLEAN, MUSE: BOOLEAN
    n_jobs,                 \* constructor argument
    max_window,             \* self.max_window
    ensemble_size,          \* self.ensemble_size
    window_sizes,           \* self.window_sizes, as the sequence np.arange builds
    series_length,          \* self.series_length
    n_instances,            \* self.n_instances (WEASEL)
    n_dims,                 \* self.n_dims (MUSE)
    SFA_transformers,       \* self.SFA_transformers
    clf,                    \* self.clf
    total_features_count,   \* self.total_features_count
    pc,                     \* "idle", or "fit" between submit and join
    X,                      \* the fit call in progress / last made: the shape of
                            \* its data, the words the data yields per transformer
                            \* and (MUSE) the max_window parameter at entry
    tasks,                  \* member index -> state of its _parallel_fit task
    finished,               \* member indices in the order their tasks completed
    warned,                 \* the last fit call issued the univariate warning
    raised,                 \* error the last fit call ended with, "none" if none
    fits,                   \* number of fit calls made so far
    all_words,              \* block list the last successful fit merged
    trained,                \* data shape of the last successful fit
    bag,                    \* outcome of the last _transform_words call
    Xpred,                  \* channel count of the last _transform_words input
    reference,              \* the first seeded run that was merged: its call and
                            \* the configurations its members sampled
    dIn,                    \* input array of _add_first_order_differences
    dOut,                   \* its output
    sIn,                    \* arguments of one _parallel_fit sampling
    sOut,                   \* the configuration it sampled
    mIn,                    \* block list given to one merge
    mOut,                   \* how the merge combined it
    bIn,                    \* arguments of one fit seen by its feature budget
    bOut,                   \* the blocks that fit merged
    pIn,                    \* decision scores and classes_ of one _predict_proba
    pOut,                   \* the labels it returned
    calls                   \* the predict calls in flight on the object

selfVars == <<max_window, ensemble_size, window_sizes, series_length,
              n_instances, n_dims, SFA_transformers, clf, total_features_count>>
ctorVars == <<variant, min_window, init_max_window, random_state,
              use_first_differences>>
callVars == <<pc, X, tasks, finished, warned, raised, fits, all_words, trained>>
diffVars == <<dIn, dOut, sIn, sOut>>
pureVars == <<mIn, mOut, bIn, bOut, pIn, pOut, calls>>
vars == <<ctorVars, n_jobs, selfVars, callVars, bag, Xpred, reference, diffVars,
          pureVars>>

(***************************************************************************)
(* Bounds of the model.                                                    *)
(***************************************************************************)
MaxFits == 2        \* fit calls made on the modelled objects
MaxEnsemble == 2    \* MUSE_V2 ensemble_size given to the constructor
MaxChannels == 2    \* channels of an input
MaxLen == 3         \* series length of an input of the augmentation
MaxVal == 1         \* values of an input of the augmentation: 0..MaxVal
MaxRngSeed == 60    \* generator seeds of the sampler alone: 0..MaxRngSeed
MaxSeries == 22     \* series lengths of the sampler alone: 2..MaxSeries
MaxBlocks == 3      \* blocks of a list merged alone: 1..MaxBlocks
MaxFeatures == 6    \* max_feature_count and distinct words of the data: 1..MaxFeatures
MaxClasses == 3     \* classes of a multiclass decision: 3..MaxClasses

(***************************************************************************)
(* Program constants of WEASEL_V2 (ensemble sizes at 1/50 scale).          *)
(***************************************************************************)
SMALL_DATASET == 250        \* n_instances < 250
SHORT_SERIES == 100         \* series_length < 100
MAX_WINDOW_SMALL == 24
MAX_WINDOW_MEDIUM == 44
MAX_WINDOW_LARGE == 84
ENSEMBLE_SMALL == 1         \* 50
ENSEMBLE_MEDIUM == 2        \* 100
ENSEMBLE_LARGE == 3         \* 150
MUSE_MAX_WINDOW == 24       \* MUSE_V2 constructor default

Min2(a, b) == IF a < b THEN a ELSE b
Max2(a, b) == IF a > b THEN a ELSE b

RECURSIVE Concat(_)
Concat(ss) == IF ss = <<>> THEN <<>> ELSE Head(ss) \o Concat(Tail(ss))

RECURSIVE SumCols(_)
SumCols(blocks) ==
    IF blocks = <<>> THEN 0 ELSE Head(blocks).cols + SumCols(Tail(blocks))

\* np.arange(lo, hi + 1, 1)
Arange(lo, hi) == [k \in 1..Max2(0, hi - lo + 1) |-> lo + k - 1]

(***************************************************************************)
(* Constructor defaults that the model keeps fixed.                        *)
(***************************************************************************)
alphabet_sizes == <<2>>
norm_options == <<FALSE>>
word_lengths == IF variant = "WEASEL" THEN <<7, 8>> ELSE <<8>>
binning_strategies ==
    IF variant = "WEASEL" THEN <<"equi-depth", "equi-width">> ELSE <<"equi-depth">>

(***************************************************************************)
(* check_random_state(seed) and the draws of the generator it returns.     *)
(* The generator is a deterministic function of its seed; Draw(seed, k)    *)
(* is its k-th output.                                                     *)
(***************************************************************************)
RECURSIVE RngState(_, _)
RngState(seed, k) ==
    IF k = 0 THEN (seed * 7 + 3) % 61
    ELSE (RngState(seed, k - 1) * 13 + 11) % 61

Draw(seed, k) == RngState(seed, k)

\* rng.choice(seq) fed by draw d
Choice(seq, d) == seq[1 + (d % Len(seq))]

\* the generator seed of member i; g is the state of the global generator
TaskSeedUnseeded(rs, i, g) == g
TaskSeed(rs, i, g) == IF rs.isNone THEN g ELSE rs.value + i

\* max(1, int32(2 ** rng.uniform(0, log2((series_length-1)/(window_size-1))))):
\* u ranges over [0, log2 r] with r = (L-1)/(w-1), the upper end included by
\* the rounding of uniform, so the integer part of 2**u ranges over
\* 1..floor(r) = 1..(L-1) div (w-1), and is 1 when r = 1.
DilationOverLength(L, w, d) ==
    LET hi == L \div (w - 1)
    IN  Max2(1, IF hi <= 0 THEN 1 ELSE 1 + (d % hi))
Dilation(L, w, d) ==
    LET hi == (L - 1) \div (w - 1)
    IN  Max2(1, IF hi <= 0 THEN 1 ELSE 1 + (d % hi))

\* min(window_size - 2, rng.choice(word_lengths))
WordLengthUnclamped(w, choice) == choice
WordLength(w, choice) == Min2(w - 2, choice)

\* the draws of WEASEL_V2's _parallel_fit, in the order the code makes them
SampleWeasel(seed, ws, L) ==
    LET w == Choice(ws, Draw(seed, 1))
    IN  [window_size |-> w,
         dilation |-> Dilation(L, w, Draw(seed, 2)),
         alphabet_size |-> Choice(alphabet_sizes, Draw(seed, 3)),
         word_length |-> WordLength(w, Choice(word_lengths, Draw(seed, 4))),
         norm |-> Choice(norm_options, Draw(seed, 5)),
         binning_strategy |-> Choice(binning_strategies, Draw(seed, 6))]

\* the draws of MUSE_V2's _parallel_fit, in the order the code makes them
SampleMuse(seed, ws, L) ==
    LET w == Choice(ws, Draw(seed, 1))
    IN  [window_size |-> w,
         alphabet_size |-> Choice(alphabet_sizes, Draw(seed, 2)),
         word_length |-> WordLength(w, Choice(word_lengths, Draw(seed, 3))),
         norm |-> Choice(norm_options, Draw(seed, 4)),
         binning_strategy |-> Choice(binning_strategies, Draw(seed, 6)),
         dilation |-> Dilation(L, w, Draw(seed, 7))]

(***************************************************************************)
(* MUSE_V2._add_first_order_differences.  An array is a sequence of        *)
(* instances, each a sequence of channels, each a sequence of values.      *)
(***************************************************************************)
Zeros(n, c, L) == [a \in 1..n |-> [ch \in 1..c |-> [t \in 1..L |-> 0]]]

\* np.diff(s, 1) along the last axis
NpDiff(s) == [t \in 1..(Len(s) - 1) |-> s[t + 1] - s[t]]

add_first_order_differences_leftpad(XX) ==
    LET c == Len(XX[1])
        L == Len(XX[1][1])
    IN  [a \in 1..Len(XX) |->
            [ch \in 1..(2 * c) |->
                IF ch <= c THEN XX[a][ch]
                ELSE LET diff == NpDiff(XX[a][ch - c])
                     IN  [t \in 1..L |-> IF t > 1 THEN diff[t - 1] ELSE 0]]]

add_first_order_differences(XX) ==
    LET c == Len(XX[1])
        L == Len(XX[1][1])
    IN  [a \in 1..Len(XX) |->
            [ch \in 1..(2 * c) |->
                IF ch <= c THEN XX[a][ch]
                ELSE LET diff == NpDiff(XX[a][ch - c])
                     IN  [t \in 1..L |-> IF t <= Len(diff) THEN diff[t] ELSE 0]]]

(***************************************************************************)
(* SFADilation, by its contract: fit_transform learns a vocabulary of      *)
(* n_words columns and returns a block of that many columns; transform     *)
(* replays it and returns a block of the same columns.                     *)
(***************************************************************************)
SFADilation(id, first_difference, words) ==
    [id |-> id, first_difference |-> first_difference, n_words |-> words]

SFA_transform(transformer) == [by |-> transformer.id, cols |-> transformer.n_words]

NoCfg == [window_size |-> 0, dilation |-> 0, alphabet_size |-> 0,
          word_length |-> 0, norm |-> FALSE, binning_strategy |-> "none"]

Pending == [status |-> "pending", seed |-> 0, cfg |-> NoCfg,
            words |-> <<>>, transformers |-> <<>>]

NoClf == [fitted |-> FALSE, n_features |-> 0, fit |-> 0]
NoBag == [kind |-> "none", blocks |-> <<>>]
ErrBag(e) == [kind |-> e, blocks |-> <<>>]
NoRun == [set |-> FALSE, call |-> <<>>, cfgs |-> <<>>]
NoX == [n |-> 0, c |-> 0, L |-> 0, words |-> 0, param_max_window |-> 0]

\* the loop over use_first_differences in WEASEL_V2's _parallel_fit
ParallelFitWeasel(i, fit, ufd, words) ==
    LET trs == [k \in 1..Len(ufd) |-> SFADilation(<<fit, i, k>>, ufd[k], words)]
    IN  [words |-> [k \in 1..Len(ufd) |-> SFA_transform(trs[k])],
         transformers |-> trs]

\* the loop over the channels in MUSE_V2's _parallel_fit
ParallelFitMuse(i, fit, dims, words) ==
    LET trs == [dim \in 1..dims |-> SFADilation(<<fit, i, dim>>, FALSE, words)]
    IN  [words |-> [dim \in 1..dims |-> SFA_transform(trs[dim])],
         transformers |-> trs]

\* what Parallel(...)(...) returns: the tasks' results in submission order
ParallelResults(ts, fin) == [k \in 1..Cardinality(DOMAIN ts) |-> ts[k - 1]]

\* Parallel re-raises at the join the error of a task that raised
JoinNeverRaises(ts) == FALSE
JoinRaises(ts) == \E i \in DOMAIN ts : ts[i].status = "failed"

\* the size band of WEASEL_V2._fit: <<max_window, ensemble_size>>
Band(n, L) ==
    IF n < SMALL_DATASET
    THEN <<MAX_WINDOW_SMALL, ENSEMBLE_SMALL>>
    ELSE IF L < SHORT_SERIES
         THEN <<MAX_WINDOW_MEDIUM, ENSEMBLE_MEDIUM>>
         ELSE <<MAX_WINDOW_LARGE, ENSEMBLE_LARGE>>

\* the window check of _fit
WindowCheckOff(mn, mx) == FALSE
WindowCheck(mn, mx) == mn > mx

(***************************************************************************)
(* Inputs.                                                                 *)
(***************************************************************************)
MinWindows == {2, 4}
RandomStates == {[isNone |-> TRUE, value |-> 0], [isNone |-> FALSE, value |-> 0]}
NJobs == {1, 2}
FitInstances == IF variant = "WEASEL" THEN {249, 250} ELSE {1}
FitLengths == IF variant = "WEASEL" THEN {3, 5, 100} ELSE {3, 5}
Channels == 1..MaxChannels
Words == {1, 2}             \* word columns a transformer learns from a data set
Seeds == {0, 1}             \* states of the unseeded global generator

(***************************************************************************)
(* __init__                                                                *)
(***************************************************************************)
InitSelf ==
    /\ init_max_window = IF variant = "WEASEL" THEN MAX_WINDOW_LARGE ELSE MUSE_MAX_WINDOW
    /\ max_window = init_max_window
    /\ ensemble_size = IF variant = "WEASEL" THEN ENSEMBLE_LARGE ELSE MaxEnsemble
    /\ window_sizes = <<>>
    /\ series_length = 0
    /\ n_instances = 0
    /\ n_dims = 0
    /\ SFA_transformers = <<>>
    /\ clf = NoClf
    /\ total_features_count = 0
    /\ pc = "idle"
    /\ X = NoX
    /\ tasks = <<>>
    /\ finished = <<>>
    /\ warned = FALSE
    /\ raised = "none"
    /\ fits = 0
    /\ all_words = <<>>
    /\ trained = NoX
    /\ bag = NoBag
    /\ Xpred = 0
    /\ reference = NoRun

\* no merge, no feature budget and no decision has been taken in isolation
MergeIdle == mIn = <<>> /\ mOut = <<>>
BudgetIdle == bIn = <<>> /\ bOut = <<>>
DecisionIdle == pIn = <<>> /\ pOut = <<>>

\* the callers of predict, and a caller with no call in flight
CallIds == {1, 2}
NoCall == [pc |-> "idle", c |-> 0, pos |-> 0, words |-> <<>>, overlapped |-> FALSE,
           result |-> NoBag]
PredictIdle == calls = [k \in CallIds |-> NoCall]

Init ==
    /\ variant \in {"WEASEL", "MUSE"}
    /\ min_window \in MinWindows
    /\ random_state \in RandomStates
    /\ use_first_differences \in
          IF variant = "WEASEL" THEN {<<TRUE, FALSE>>} ELSE BOOLEAN
    /\ n_jobs \in NJobs
    /\ InitSelf
    /\ dIn = <<>>
    /\ dOut = <<>>
    /\ sIn = <<>>
    /\ sOut = <<>>
    /\ MergeIdle
    /\ BudgetIdle
    /\ DecisionIdle
    /\ PredictIdle

\* a second object built with the same constructor arguments, n_jobs apart
Construct(nj) ==
    /\ pc = "idle"
    /\ fits < MaxFits
    /\ fits > 0
    /\ n_jobs' = nj
    /\ max_window' = init_max_window
    /\ ensemble_size' = IF variant = "WEASEL" THEN ENSEMBLE_LARGE ELSE MaxEnsemble
    /\ window_sizes' = <<>>
    /\ series_length' = 0
    /\ n_instances' = 0
    /\ n_dims' = 0
    /\ SFA_transformers' = <<>>
    /\ clf' = NoClf
    /\ total_features_count' = 0
    /\ X' = NoX
    /\ warned' = FALSE
    /\ raised' = "none"
    /\ all_words' = <<>>
    /\ trained' = NoX
    /\ bag' = NoBag
    /\ Xpred' = 0
    /\ UNCHANGED <<ctorVars, pc, tasks, finished, fits, reference, diffVars, pureVars>>

(***************************************************************************)
(* WEASEL_V2._fit up to the submission of the member tasks.                *)
(***************************************************************************)
WEASEL_fit(n, c, L, w) ==
    /\ variant = "WEASEL"
    /\ pc = "idle"
    /\ fits < MaxFits
    /\ fits' = fits + 1
    /\ X' = [n |-> n, c |-> c, L |-> L, words |-> w, param_max_window |-> 0]
    /\ n_instances' = n
    /\ series_length' = L
    /\ warned' = FALSE
    /\ finished' = <<>>
    /\ bag' = NoBag
    /\ Xpred' = 0
    /\ IF c # 1
       THEN \* X.squeeze(1) raises
            /\ raised' = "ValueError: squeeze"
            /\ pc' = "idle"
            /\ tasks' = <<>>
            /\ UNCHANGED <<max_window, ensemble_size, window_sizes>>
       ELSE LET band == Band(n, L)
                mw == Min2(L, band[1])
            IN  /\ max_window' = mw
                /\ ensemble_size' = band[2]
                /\ IF WindowCheck(min_window, mw)
                   THEN /\ raised' = "ValueError: min_window"
                        /\ pc' = "idle"
                        /\ tasks' = <<>>
                        /\ UNCHANGED window_sizes
                   ELSE /\ raised' = "none"
                        /\ pc' = "fit"
                        /\ window_sizes' = Arange(min_window, mw)
                        /\ tasks' = [i \in 0..(band[2] - 1) |-> Pending]
    /\ UNCHANGED <<ctorVars, n_jobs, n_dims, SFA_transformers, clf,
                   total_features_count, all_words, trained, reference, diffVars, pureVars>>

(***************************************************************************)
(* MUSE_V2._fit up to the submission of the member tasks.                  *)
(***************************************************************************)
MUSE_fit(n, c, L, w) ==
    /\ variant = "MUSE"
    /\ pc = "idle"
    /\ fits < MaxFits
    /\ fits' = fits + 1
    /\ X' = [n |-> n, c |-> c, L |-> L, words |-> w, param_max_window |-> max_window]
    /\ finished' = <<>>
    /\ bag' = NoBag
    /\ Xpred' = 0
    /\ LET X0 == Zeros(n, c, L)
           Xa == IF use_first_differences THEN add_first_order_differences(X0) ELSE X0
           dims == Len(Xa[1])
           len == Len(Xa[1][1])
           mw == Min2(len, max_window)
       IN  /\ n_dims' = dims
           /\ warned' = (dims = 1)
           /\ series_length' = len
           /\ max_window' = mw
           /\ IF WindowCheck(min_window, mw)
              THEN /\ raised' = "ValueError: min_window"
                   /\ pc' = "idle"
                   /\ tasks' = <<>>
                   /\ UNCHANGED window_sizes
              ELSE /\ raised' = "none"
                   /\ pc' = "fit"
                   /\ window_sizes' = Arange(min_window, mw)
                   /\ tasks' = [i \in 0..(ensemble_size - 1) |-> Pending]
    /\ UNCHANGED <<ctorVars, n_jobs, ensemble_size, n_instances, SFA_transformers,
                   clf, total_features_count, all_words, trained, reference, diffVars, pureVars>>

(***************************************************************************)
(* The member tasks (_parallel_fit).  Parallel dispatches them in member   *)
(* order, at most n_jobs at a time; they complete in any order.            *)
(***************************************************************************)
Status(s) == {i \in DOMAIN tasks : tasks[i].status = s}

\* the head of _parallel_fit: seed the generator and sample the configuration
TaskStart(i) ==
    /\ pc = "fit"
    /\ i \in Status("pending")
    /\ \A j \in Status("pending") : i <= j
    /\ Cardinality(Status("running")) < n_jobs
    /\ Status("failed") = {}
    /\ \E g \in Seeds :
         LET seed == TaskSeed(random_state, i, g)
         IN  IF window_sizes = <<>>
             THEN \* rng.choice of an empty array raises
                  tasks' = [tasks EXCEPT ![i].status = "failed"]
             ELSE tasks' = [tasks EXCEPT ![i] =
                     [status |-> "running", seed |-> seed,
                      cfg |-> IF variant = "WEASEL"
                              THEN SampleWeasel(seed, window_sizes, series_length)
                              ELSE SampleMuse(seed, window_sizes, series_length),
                      words |-> <<>>, transformers |-> <<>>]]
    /\ UNCHANGED <<ctorVars, n_jobs, selfVars, pc, X, finished, warned, raised, fits,
                   all_words, trained, bag, Xpred, reference, diffVars, pureVars>>

\* the rest of _parallel_fit: fit the transformers and return words and transformers
TaskFinish(i) ==
    /\ pc = "fit"
    /\ i \in Status("running")
    /\ LET res == IF variant = "WEASEL"
                  THEN ParallelFitWeasel(i, fits, use_first_differences, X.words)
                  ELSE ParallelFitMuse(i, fits, n_dims, X.words)
       IN  tasks' = [tasks EXCEPT ![i].status = "done",
                                  ![i].words = res.words,
                                  ![i].transformers = res.transformers]
    /\ finished' = Append(finished, i)
    /\ UNCHANGED <<ctorVars, n_jobs, selfVars, pc, X, warned, raised, fits,
                   all_words, trained, bag, Xpred, reference, diffVars, pureVars>>

\* fit_transform raises inside the task
TaskFail(i) ==
    /\ pc = "fit"
    /\ i \in Status("running")
    /\ tasks' = [tasks EXCEPT ![i].status = "failed"]
    /\ UNCHANGED <<ctorVars, n_jobs, selfVars, pc, X, finished, warned, raised, fits,
                   all_words, trained, bag, Xpred, reference, diffVars, pureVars>>

(***************************************************************************)
(* The join and the code after it.                                         *)
(***************************************************************************)
Joinable ==
    /\ pc = "fit"
    /\ \/ Status("failed") # {}
       \/ \A i \in DOMAIN tasks : tasks[i].status = "done"

\* a call, without what the sampler cannot see (the words the data yields)
Call(x) == <<x.n, x.c, x.L, x.param_max_window>>

\* the sampled configurations of the first seeded run that reaches the merge
Remember ==
    IF random_state.isNone \/ reference.set
    THEN reference
    ELSE [set |-> TRUE, call |-> Call(X), cfgs |-> [i \in DOMAIN tasks |-> tasks[i].cfg]]

WEASEL_join ==
    /\ variant = "WEASEL"
    /\ Joinable
    /\ pc' = "idle"
    /\ tasks' = <<>>
    /\ IF JoinRaises(tasks)
       THEN /\ raised' = "TaskError"
            /\ UNCHANGED <<SFA_transformers, clf, total_features_count, all_words,
                           trained, reference>>
       ELSE LET parallel_res == ParallelResults(tasks, finished)
                sfa_words == Concat([k \in 1..Len(parallel_res) |-> parallel_res[k].words])
            IN  /\ SFA_transformers' = SFA_transformers \o
                      Concat([k \in 1..Len(parallel_res) |-> parallel_res[k].transformers])
                /\ reference' = Remember
                /\ IF sfa_words = <<>>
                   THEN \* sfa_words[0] raises
                        /\ raised' = "IndexError"
                        /\ UNCHANGED <<clf, total_features_count, all_words, trained>>
                   ELSE /\ raised' = "none"
                        /\ all_words' = sfa_words
                        /\ clf' = [fitted |-> TRUE, n_features |-> SumCols(sfa_words),
                                   fit |-> fits]
                        /\ total_features_count' = SumCols(sfa_words)
                        /\ trained' = X
    /\ finished' = <<>>
    /\ UNCHANGED <<ctorVars, n_jobs, max_window, ensemble_size, window_sizes,
                   series_length, n_instances, n_dims, X, warned, fits,
                   bag, Xpred, diffVars, pureVars>>

MUSE_join ==
    /\ variant = "MUSE"
    /\ Joinable
    /\ pc' = "idle"
    /\ tasks' = <<>>
    /\ IF JoinRaises(tasks)
       THEN /\ raised' = "TaskError"
            /\ UNCHANGED <<SFA_transformers, clf, total_features_count, all_words,
                           trained, reference>>
       ELSE LET parallel_res == ParallelResults(tasks, finished)
                words == Concat([k \in 1..Len(parallel_res) |-> parallel_res[k].words])
            IN  /\ SFA_transformers' =
                      [k \in 1..Len(parallel_res) |-> parallel_res[k].transformers]
                /\ reference' = Remember
                /\ IF words = <<>>
                   THEN \* all_words[0] raises
                        /\ raised' = "IndexError"
                        /\ UNCHANGED <<clf, total_features_count, all_words, trained>>
                   ELSE /\ raised' = "none"
                        /\ all_words' = words
                        /\ clf' = [fitted |-> TRUE, n_features |-> SumCols(words),
                                   fit |-> fits]
                        /\ total_features_count' = SumCols(words)
                        /\ trained' = X
    /\ finished' = <<>>
    /\ UNCHANGED <<ctorVars, n_jobs, max_window, ensemble_size, window_sizes,
                   series_length, n_instances, n_dims, X, warned, fits,
                   bag, Xpred, diffVars, pureVars>>

(***************************************************************************)
(* _transform_words                                                        *)
(***************************************************************************)
\* what WEASEL_V2._transform_words returns for an input of c channels
TransformWordsWeasel(c) ==
    IF c # 1
    THEN ErrBag("ValueError")       \* X.squeeze(1) raises
    ELSE LET words == [k \in 1..Len(SFA_transformers) |->
                          SFA_transform(SFA_transformers[k])]
         IN  IF words = <<>>
             THEN ErrBag("IndexError")   \* all_words[0] raises
             ELSE [kind |-> "matrix", blocks |-> words]

WEASEL_transform_words(c) ==
    /\ variant = "WEASEL"
    /\ pc = "idle"
    /\ Xpred' = c
    /\ bag' = TransformWordsWeasel(c)
    /\ UNCHANGED <<ctorVars, n_jobs, selfVars, callVars, reference, diffVars, pureVars>>

\* _parallel_transform_words: one block per channel of X, "IndexError" when X
\* has a channel the bundle has no transformer for
ParallelTransformWords(dims, bundle) ==
    IF dims > Len(bundle)
    THEN ErrBag("IndexError")
    ELSE [kind |-> "matrix", blocks |-> [dim \in 1..dims |-> SFA_transform(bundle[dim])]]

\* the channels MUSE_V2's _transform_words hands to its tasks
TransformDims(c) ==
    LET X0 == Zeros(1, c, Max2(1, series_length))
        Xa == IF use_first_differences THEN add_first_order_differences(X0) ELSE X0
    IN  Len(Xa[1])

\* what MUSE_V2._transform_words returns for an input of c channels
TransformWordsMuse(c) ==
    LET dims == TransformDims(c)
        res == [ind \in 1..ensemble_size |->
                  IF ind > Len(SFA_transformers)
                  THEN ErrBag("IndexError")   \* self.SFA_transformers[ind] raises
                  ELSE ParallelTransformWords(dims, SFA_transformers[ind])]
        words == Concat([ind \in 1..ensemble_size |-> res[ind].blocks])
    IN  IF \E ind \in 1..ensemble_size : res[ind].kind # "matrix"
        THEN ErrBag("IndexError")
        ELSE IF words = <<>>
             THEN ErrBag("IndexError")    \* all_words[0] raises
             ELSE [kind |-> "matrix", blocks |-> words]

MUSE_transform_words(c) ==
    /\ variant = "MUSE"
    /\ pc = "idle"
    /\ Xpred' = c
    /\ bag' = TransformWordsMuse(c)
    /\ UNCHANGED <<ctorVars, n_jobs, selfVars, callVars, reference, diffVars, pureVars>>

(***************************************************************************)
(* The specification of the classifier objects.                            *)
(***************************************************************************)
Next ==
    \/ \E nj \in NJobs : Construct(nj)
    \/ \E n \in FitInstances, c \in Channels, L \in FitLengths, w \in Words :
          WEASEL_fit(n, c, L, w)
    \/ \E n \in FitInstances, c \in Channels, L \in FitLengths, w \in Words :
          MUSE_fit(n, c, L, w)
    \/ \E i \in DOMAIN tasks : TaskStart(i)
    \/ \E i \in DOMAIN tasks : TaskFinish(i)
    \/ \E i \in DOMAIN tasks : TaskFail(i)
    \/ WEASEL_join
    \/ MUSE_join
    \/ \E c \in Channels : WEASEL_transform_words(c)
    \/ \E c \in Channels : MUSE_transform_words(c)

Spec == Init /\ [][Next]_vars

(***************************************************************************)
(* The specification of the augmentation alone: every small array, and     *)
(* one application of _add_first_order_differences to it.                  *)
(***************************************************************************)
Arrays ==
    UNION {[1..1 -> [1..c -> [1..L -> 0..MaxVal]]] : c \in 1..MaxChannels, L \in 1..MaxLen}

InitDiff ==
    /\ variant = "MUSE"
    /\ min_window = 4
    /\ random_state = [isNone |-> TRUE, value |-> 0]
    /\ use_first_differences = TRUE
    /\ n_jobs = 1
    /\ InitSelf
    /\ dIn \in Arrays
    /\ dOut = <<>>
    /\ sIn = <<>>
    /\ sOut = <<>>
    /\ MergeIdle
    /\ BudgetIdle
    /\ DecisionIdle
    /\ PredictIdle

Augment ==
    /\ dOut = <<>>
    /\ dOut' = add_first_order_differences(dIn)
    /\ UNCHANGED <<ctorVars, n_jobs, selfVars, callVars, bag, Xpred, reference,
                   dIn, sIn, sOut, pureVars>>

NextDiff == Augment

SpecDiff == InitDiff /\ [][NextDiff]_vars

(***************************************************************************)
(* The specification of the sampler alone: the head of _parallel_fit on    *)
(* every seed and every window range 2 <= min_window <= max_window <=      *)
(* series_length within the bounds.                                        *)
(***************************************************************************)
SamplerInputs ==
    {a \in [seed : 0..MaxRngSeed, series_length : 2..MaxSeries,
            min_window : 2..MaxSeries, max_window : 2..MaxSeries] :
        a.min_window <= a.max_window /\ a.max_window <= a.series_length}

InitSample ==
    /\ variant \in {"WEASEL", "MUSE"}
    /\ min_window = 4
    /\ random_state = [isNone |-> TRUE, value |-> 0]
    /\ use_first_differences = IF variant = "WEASEL" THEN <<TRUE, FALSE>> ELSE TRUE
    /\ n_jobs = 1
    /\ InitSelf
    /\ dIn = <<>>
    /\ dOut = <<>>
    /\ sIn \in SamplerInputs
    /\ sOut = <<>>
    /\ MergeIdle
    /\ BudgetIdle
    /\ DecisionIdle
    /\ PredictIdle

Sample ==
    /\ sOut = <<>>
    /\ sOut' = LET ws == Arange(sIn.min_window, sIn.max_window)
               IN  IF variant = "WEASEL"
                   THEN SampleWeasel(sIn.seed, ws, sIn.series_length)
                   ELSE SampleMuse(sIn.seed, ws, sIn.series_length)
    /\ UNCHANGED <<ctorVars, n_jobs, selfVars, callVars, bag, Xpred, reference,
                   dIn, dOut, sIn, pureVars>>

NextSample == Sample

SpecSample == InitSample /\ [][NextSample]_vars

(***************************************************************************)
(* An object on which nothing has been called, the state the remaining     *)
(* specifications of single functions start from.                          *)
(***************************************************************************)
IdleObject ==
    /\ variant = "MUSE"
    /\ min_window = 4
    /\ random_state = [isNone |-> TRUE, value |-> 0]
    /\ use_first_differences = TRUE
    /\ n_jobs = 1
    /\ InitSelf
    /\ dIn = <<>>
    /\ dOut = <<>>
    /\ sIn = <<>>
    /\ sOut = <<>>
    /\ PredictIdle

(***************************************************************************)
(* The specification of the merge alone: the tail of _fit and of           *)
(* _transform_words on every list of one to MaxBlocks blocks, each a numpy *)
(* array ("dense") or a scipy matrix ("sparse").                           *)
(***************************************************************************)
BlockKinds == {"dense", "sparse"}

BlockLists ==
    UNION {[1..k -> [kind : BlockKinds, cols : Words]] : k \in 1..MaxBlocks}

\* type(all_words[0]) is np.ndarray: the first block alone picks the routine;
\* np.concatenate raises on a scipy matrix among its arguments, hstack takes
\* both kinds
Merge(blocks) ==
    IF blocks[1].kind = "dense"
    THEN [how |-> "concatenate",
          raised |-> \E k \in DOMAIN blocks : blocks[k].kind = "sparse",
          cols |-> SumCols(blocks)]
    ELSE [how |-> "hstack", raised |-> FALSE, cols |-> SumCols(blocks)]

InitMerge ==
    /\ IdleObject
    /\ mIn \in BlockLists
    /\ mOut = <<>>
    /\ BudgetIdle
    /\ DecisionIdle

MergeWords ==
    /\ mOut = <<>>
    /\ mOut' = Merge(mIn)
    /\ UNCHANGED <<ctorVars, n_jobs, selfVars, callVars, bag, Xpred, reference,
                   diffVars, mIn, bIn, bOut, pIn, pOut, calls>>

NextMerge == MergeWords

SpecMerge == InitMerge /\ [][NextMerge]_vars

(***************************************************************************)
(* The specification of the feature budget alone: the blocks one fit       *)
(* merges, for every max_feature_count, ensemble size, channel count and   *)
(* set of first-difference options within the bounds, on data in which a   *)
(* transformer finds `vocabulary` distinct words.                          *)
(***************************************************************************)
\* getSFADilated: max_feature_count // ensemble_size
WeaselCap(max_feature_count, ensemble) == max_feature_count \div ensemble

\* MUSE_V2's _parallel_fit: int(max_feature_count / (ensemble_size * X.shape[1]))
MuseCap(max_feature_count, ensemble, channels) ==
    max_feature_count \div (ensemble * channels)

\* feature_selection chi2_top_k or random: the transformer keeps the words it
\* found, at most as many as its max_feature_count
Selected(cap, vocabulary) == Min2(cap, vocabulary)

\* the channels MUSE_V2's tasks see: doubled by the augmentation
AugmentedChannels(channels, first_differences) ==
    IF first_differences THEN 2 * channels ELSE channels

BudgetInputs ==
    [variant : {"WEASEL"}, max_feature_count : 1..MaxFeatures,
     ensemble_size : 1..MaxEnsemble, channels : {1},
     use_first_differences : {<<TRUE, FALSE>>, <<TRUE>>, <<FALSE>>},
     vocabulary : 1..MaxFeatures]
    \cup
    [variant : {"MUSE"}, max_feature_count : 1..MaxFeatures,
     ensemble_size : 1..MaxEnsemble, channels : 1..MaxChannels,
     use_first_differences : {<<TRUE>>, <<FALSE>>},
     vocabulary : 1..MaxFeatures]

\* the blocks of all members of one fit, in member order, and their columns
FitBlocks(a) ==
    LET dims == AugmentedChannels(a.channels, a.use_first_differences[1])
        member(i) ==
            IF a.variant = "WEASEL"
            THEN ParallelFitWeasel(i, 1, a.use_first_differences,
                     Selected(WeaselCap(a.max_feature_count, a.ensemble_size),
                              a.vocabulary)).words
            ELSE ParallelFitMuse(i, 1, dims,
                     Selected(MuseCap(a.max_feature_count, a.ensemble_size, dims),
                              a.vocabulary)).words
        blocks == Concat([k \in 1..a.ensemble_size |-> member(k - 1)])
    IN  [blocks |-> blocks, total_features_count |-> SumCols(blocks)]

InitBudget ==
    /\ IdleObject
    /\ MergeIdle
    /\ bIn \in BudgetInputs
    /\ bOut = <<>>
    /\ DecisionIdle

FitBudget ==
    /\ bOut = <<>>
    /\ bOut' = FitBlocks(bIn)
    /\ UNCHANGED <<ctorVars, n_jobs, selfVars, callVars, bag, Xpred, reference,
                   diffVars, mIn, mOut, bIn, pIn, pOut, calls>>

NextBudget == FitBudget

SpecBudget == InitBudget /\ [][NextBudget]_vars

(***************************************************************************)
(* The specification of concurrent inference: an object is fitted, one fit *)
(* at a time, and between fits the callers run predict calls on it step by *)
(* step, in any interleaving: every transformer's transform is a step of   *)
(* its own (a task of Parallel), the merge and the decision are the last.  *)
(***************************************************************************)
\* what a transform task leaves in self.SFA_transformers: the list it read
StoredAfterTransformPopped(trs) == IF trs = <<>> THEN trs ELSE Tail(trs)
StoredAfterTransform(trs) == trs

\* clf.decision_function(bag) and the class lookup: labels by the fitted
\* classifier for these blocks; an error of _transform_words propagates
Decide(b) ==
    IF b.kind # "matrix" THEN b
    ELSE [kind |-> "labels", blocks |-> b.blocks, clf |-> clf]

\* a predict call run with no other call in flight
PredictAlone(c) ==
    Decide(IF variant = "WEASEL" THEN TransformWordsWeasel(c) ELSE TransformWordsMuse(c))

InFlight == {k \in CallIds : calls[k].pc \in {"transform", "merge"}}

Done(call, res) == [call EXCEPT !.pc = "done", !.result = res]

\* the entry of _predict_proba and of _transform_words
PredictStart(k, c) ==
    /\ pc = "idle"
    /\ clf.fitted
    /\ calls[k].pc = "idle"
    /\ LET started == [NoCall EXCEPT !.c = c, !.overlapped = (InFlight # {})]
           others == [j \in CallIds |->
                        IF j \in InFlight
                        THEN [calls[j] EXCEPT !.overlapped = TRUE] ELSE calls[j]]
       IN  calls' = [others EXCEPT ![k] =
                IF variant = "WEASEL" /\ c # 1
                THEN Done(started, ErrBag("ValueError"))    \* X.squeeze(1) raises
                ELSE [started EXCEPT !.pc = "transform", !.pos = 1]]
    /\ UNCHANGED <<ctorVars, n_jobs, selfVars, callVars, bag, Xpred, reference,
                   diffVars, mIn, mOut, bIn, bOut, pIn, pOut>>

\* one task of _transform_words: WEASEL_V2 replays the next stored
\* transformer, MUSE_V2 the next member's bundle on every channel
PredictTransform(k) ==
    /\ calls[k].pc = "transform"
    /\ LET call == calls[k]
           n == IF variant = "WEASEL" THEN Len(SFA_transformers) ELSE ensemble_size
       IN  IF call.pos > n
           THEN /\ calls' = [calls EXCEPT ![k].pc = "merge"]
                /\ UNCHANGED SFA_transformers
           ELSE /\ calls' = [calls EXCEPT ![k] =
                     IF call.pos > Len(SFA_transformers)
                     THEN Done(call, ErrBag("IndexError"))
                     ELSE IF variant = "WEASEL"
                     THEN [call EXCEPT
                             !.words = Append(@, SFA_transform(SFA_transformers[call.pos])),
                             !.pos = @ + 1]
                     ELSE LET res == ParallelTransformWords(TransformDims(call.c),
                                         SFA_transformers[call.pos])
                          IN  IF res.kind # "matrix"
                              THEN Done(call, res)
                              ELSE [call EXCEPT !.words = @ \o res.blocks,
                                                !.pos = @ + 1]]
                /\ SFA_transformers' = StoredAfterTransform(SFA_transformers)
    /\ UNCHANGED <<ctorVars, n_jobs, max_window, ensemble_size, window_sizes,
                   series_length, n_instances, n_dims, clf, total_features_count,
                   callVars, bag, Xpred, reference,
                   diffVars, mIn, mOut, bIn, bOut, pIn, pOut>>

\* the merge of the blocks and the decision of the classifier
PredictMerge(k) ==
    /\ calls[k].pc = "merge"
    /\ calls' = [calls EXCEPT ![k] =
            Done(@, IF @.words = <<>>
                    THEN ErrBag("IndexError")     \* all_words[0] raises
                    ELSE Decide([kind |-> "matrix", blocks |-> @.words]))]
    /\ UNCHANGED <<ctorVars, n_jobs, selfVars, callVars, bag, Xpred, reference,
                   diffVars, mIn, mOut, bIn, bOut, pIn, pOut>>

\* the caller takes the result
PredictReturn(k) ==
    /\ calls[k].pc = "done"
    /\ calls' = [calls EXCEPT ![k] = NoCall]
    /\ UNCHANGED <<ctorVars, n_jobs, selfVars, callVars, bag, Xpred, reference,
                   diffVars, mIn, mOut, bIn, bOut, pIn, pOut>>

PredictInstances == {249}
PredictLengths == {3}

InitPredict ==
    /\ variant \in {"WEASEL", "MUSE"}
    /\ min_window = 2
    /\ random_state = [isNone |-> FALSE, value |-> 0]
    /\ use_first_differences \in
          IF variant = "WEASEL" THEN {<<TRUE, FALSE>>} ELSE BOOLEAN
    /\ n_jobs = 1
    /\ InitSelf
    /\ dIn = <<>>
    /\ dOut = <<>>
    /\ sIn = <<>>
    /\ sOut = <<>>
    /\ MergeIdle
    /\ BudgetIdle
    /\ DecisionIdle
    /\ PredictIdle

\* fit is not called while a predict call is in flight
NextPredict ==
    \/ /\ PredictIdle
       /\ \E n \in PredictInstances, c \in Channels, L \in PredictLengths, w \in Words :
             WEASEL_fit(n, c, L, w)
    \/ /\ PredictIdle
       /\ \E n \in PredictInstances, c \in Channels, L \in PredictLengths, w \in Words :
             MUSE_fit(n, c, L, w)
    \/ \E i \in DOMAIN tasks : TaskStart(i)
    \/ \E i \in DOMAIN tasks : TaskFinish(i)
    \/ WEASEL_join
    \/ MUSE_join
    \/ \E k \in CallIds, c \in Channels : PredictStart(k, c)
    \/ \E k \in CallIds : PredictTransform(k)
    \/ \E k \in CallIds : PredictMerge(k)
    \/ \E k \in CallIds : PredictReturn(k)

SpecPredict == InitPredict /\ [][NextPredict]_vars

(***************************************************************************)
(* The specification of the decision alone: the tail of _predict_proba on  *)
(* every score array of one or two instances, one-dimensional (binary) or  *)
(* with one column per class, scores drawn from ScoreValues.               *)
(***************************************************************************)
ScoreValues == {-1, 0, 1}
Instances == {1, 2}
ClassLabels == <<"A", "B", "C", "D", "E">>

DecisionInputs ==
    UNION {[one_column : {TRUE}, scores : [1..n -> ScoreValues],
            classes_ : {SubSeq(ClassLabels, 1, 2)}] : n \in Instances}
    \cup
    UNION {[one_column : {FALSE}, scores : [1..n -> [1..k -> ScoreValues]],
            classes_ : {SubSeq(ClassLabels, 1, k)}] :
                n \in Instances, k \in 3..MaxClasses}

\* scores > 0
PositiveOrZero(score) == score >= 0
Positive(score) == score > 0

\* row.argmax(): the index, from 0, of the first largest entry
ArgMax(row) ==
    (CHOOSE j \in DOMAIN row :
        /\ \A m \in DOMAIN row : row[m] <= row[j]
        /\ \A m \in DOMAIN row : m < j => row[m] < row[j]) - 1

\* indices, from 0, into classes_
Indices(a) ==
    IF a.one_column                          \* len(scores.shape) == 1
    THEN [i \in DOMAIN a.scores |-> IF Positive(a.scores[i]) THEN 1 ELSE 0]
    ELSE [i \in DOMAIN a.scores |-> ArgMax(a.scores[i])]

\* self.classes_[indices]
PredictedLabels(a) == [i \in DOMAIN a.scores |-> a.classes_[Indices(a)[i] + 1]]

InitDecision ==
    /\ IdleObject
    /\ MergeIdle
    /\ BudgetIdle
    /\ pIn \in DecisionInputs
    /\ pOut = <<>>

Decision ==
    /\ pOut = <<>>
    /\ pOut' = PredictedLabels(pIn)
    /\ UNCHANGED <<ctorVars, n_jobs, selfVars, callVars, bag, Xpred, reference,
                   diffVars, mIn, mOut, bIn, bOut, pIn, calls>>

NextDecision == Decision

SpecDecision == InitDecision /\ [][NextDecision]_vars

(***************************************************************************)
(* Properties.                                                             *)
(***************************************************************************)

\* a task whose configuration has been sampled
Sampled(i) == tasks[i].status \in {"running", "done"}

\* the last _transform_words call returned a matrix for an input with the
\* channel count of the data the classifier was last fitted on
TransformedTrainingShape ==
    /\ clf.fitted
    /\ bag.kind = "matrix"
    /\ Xpred = trained.c

\* C1: after any sequence of successful fit calls, the matrix _transform_words
\* builds for an input of the training shape has total_features_count columns,
\* and as many blocks as the most recent fit merged.
C1_SchemaStable ==
    TransformedTrainingShape =>
        /\ SumCols(bag.blocks) = total_features_count
        /\ Len(bag.blocks) = Len(all_words)

\* the blocks are in member order and, within a member, in slot order
MemberOrdered(blocks) ==
    \A j, k \in 1..Len(blocks) :
        j < k => \/ blocks[j].by[2] < blocks[k].by[2]
                 \/ /\ blocks[j].by[2] = blocks[k].by[2]
                    /\ blocks[j].by[3] < blocks[k].by[3]

\* C2: whatever order the tasks complete in, fit accumulates blocks and
\* transformers in member-index order, and the k-th block built at inference
\* comes from the transformer that produced the k-th block at fit.
C2_SameTransformerPerBlock ==
    /\ MemberOrdered(all_words)
    /\ TransformedTrainingShape =>
          \A k \in 1..Len(all_words) :
              /\ k <= Len(bag.blocks)
              /\ bag.blocks[k].by = all_words[k].by

\* the part of C2 about the join alone
C2_FitInMemberOrder == MemberOrdered(all_words)

\* C3: with an integer random_state, member i samples from a generator seeded
\* with random_state + i, and samples the configuration that member i sampled
\* in the remembered run of the same call, whatever n_jobs and the order of
\* the tasks were in either run.
C3_SeededSamplingDeterministic ==
    ~random_state.isNone =>
        \A i \in DOMAIN tasks :
            Sampled(i) =>
                /\ tasks[i].seed = random_state.value + i
                /\ (reference.set /\ reference.call = Call(X)) =>
                       tasks[i].cfg = reference.cfgs[i]

\* a second seeded run of the remembered call, two tasks in flight at once,
\* completed out of member order, with members that sampled different things
C3_Witness ==
    /\ ~random_state.isNone
    /\ reference.set
    /\ reference.call = Call(X)
    /\ fits > 1
    /\ n_jobs = 2
    /\ Len(finished) > 1
    /\ finished[1] > finished[2]
    /\ tasks[0].cfg # tasks[1].cfg

\* C4: an input whose channel count differs from the fitted one makes
\* _transform_words raise instead of returning a matrix.
C4_ChannelMismatchRaises ==
    (clf.fitted /\ bag.kind # "none" /\ Xpred # trained.c) => bag.kind # "matrix"

\* the half of C4 about inputs with more channels than fitted
C4_MoreChannelsRaise ==
    (clf.fitted /\ bag.kind # "none" /\ Xpred > trained.c) => bag.kind # "matrix"

\* the max_window a fit call is configured with: the constructor's for MUSE_V2,
\* the size band's for WEASEL_V2
ConfiguredMaxWindow(x) ==
    IF variant = "MUSE" THEN init_max_window ELSE Band(x.n, x.L)[1]

\* the last fit call got as far as the window check
ReachedWindowCheck == X # NoX /\ raised # "ValueError: squeeze"

\* C5: in every fit call the effective max_window is
\* min(series_length of this call, configured max_window).
C5_EffectiveMaxWindow ==
    ReachedWindowCheck => max_window = Min2(X.L, ConfiguredMaxWindow(X))

\* C6: a fit call with min_window > min(series_length, max_window) raises the
\* configuration error with no task submitted, no configuration sampled, and
\* the stored transformers and the classifier as they were.
C6_WindowErrorBeforeAnyTask ==
    [][(/\ fits' = fits + 1
        /\ variant = "WEASEL" => X'.c = 1
        /\ min_window > Min2(X'.L, ConfiguredMaxWindow(X')))
       => (/\ raised' = "ValueError: min_window"
           /\ pc' = "idle"
           /\ tasks' = <<>>
           /\ UNCHANGED <<SFA_transformers, clf, total_features_count, all_words>>)]_vars

\* the configuration error on an object that an earlier call fitted
C6_Witness ==
    /\ raised = "ValueError: min_window"
    /\ min_window > Min2(X.L, ConfiguredMaxWindow(X))
    /\ clf.fitted
    /\ SFA_transformers # <<>>

\* C7: a sampled configuration satisfies
\* min_window <= window_size <= max_window <= series_length,
\* word_length <= window_size - 2 and dilation >= 1.
C7_SampledConfigValid ==
    sOut # <<>> =>
        /\ sIn.min_window <= sOut.window_size
        /\ sOut.window_size <= sIn.max_window
        /\ sIn.max_window <= sIn.series_length
        /\ sOut.word_length <= sOut.window_size - 2
        /\ sOut.dilation >= 1

\* a configuration with a window inside the range, a word length the clamp
\* did not cut, and a dilation above 1
C7_Witness ==
    /\ sOut # <<>>
    /\ sIn.min_window < sOut.window_size
    /\ sOut.window_size < sIn.max_window
    /\ sOut.word_length < sOut.window_size - 2
    /\ sOut.dilation > 1

\* C7 on the configurations the tasks of a fit sample
C7_InFit ==
    \A i \in DOMAIN tasks :
        Sampled(i) =>
            /\ min_window <= tasks[i].cfg.window_size
            /\ tasks[i].cfg.window_size <= max_window
            /\ max_window <= series_length
            /\ tasks[i].cfg.word_length <= tasks[i].cfg.window_size - 2
            /\ tasks[i].cfg.dilation >= 1

\* C8: when a member task raised, the fit call ends with that error, merges
\* nothing, leaves the stored transformers and the classifier as they were,
\* and no task that raised runs again.
C8_TaskErrorAbortsFit ==
    [][/\ (pc = "fit" /\ pc' = "idle" /\ Status("failed") # {})
          => (/\ raised' = "TaskError"
              /\ UNCHANGED <<SFA_transformers, clf, total_features_count,
                             all_words, trained>>)
       /\ \A i \in DOMAIN tasks :
             tasks[i].status = "failed"
                => (tasks' = <<>> \/ tasks'[i].status = "failed")]_vars

\* a fit call that a task error ended, on an object an earlier call fitted
C8_Witness ==
    /\ raised = "TaskError"
    /\ pc = "idle"
    /\ clf.fitted
    /\ clf.fit < fits
    /\ SFA_transformers # <<>>

\* the output has twice the channels of the input, the same instances and
\* length, and the input as its first channels
AugmentedShape ==
    /\ Len(dOut) = Len(dIn)
    /\ \A a \in 1..Len(dIn) :
          /\ Len(dOut[a]) = 2 * Len(dIn[a])
          /\ \A ch \in 1..Len(dIn[a]) :
                /\ dOut[a][ch] = dIn[a][ch]
                /\ Len(dOut[a][Len(dIn[a]) + ch]) = Len(dIn[a][ch])

\* C9 as claimed: channel c+j is the differences of channel j padded with a
\* zero on the left (position 0 is 0, position t is x[t] - x[t-1]).
C9_LeftZeroPadded ==
    dOut # <<>> =>
        /\ AugmentedShape
        /\ \A a \in 1..Len(dIn) : \A j \in 1..Len(dIn[a]) :
              LET x == dIn[a][j]
                  d == dOut[a][Len(dIn[a]) + j]
              IN  \A t \in 1..Len(x) :
                      d[t] = IF t = 1 THEN 0 ELSE x[t] - x[t - 1]

\* C9 as amended: channel c+j is the differences of channel j padded with a
\* zero on the right (position t < L-1 is x[t+1] - x[t], position L-1 is 0).
C9_RightZeroPadded ==
    dOut # <<>> =>
        /\ AugmentedShape
        /\ \A a \in 1..Len(dIn) : \A j \in 1..Len(dIn[a]) :
              LET x == dIn[a][j]
                  d == dOut[a][Len(dIn[a]) + j]
              IN  \A t \in 1..Len(x) :
                      d[t] = IF t = Len(x) THEN 0 ELSE x[t + 1] - x[t]

\* an augmented two-channel array whose second channel has a non-zero
\* difference at its first position
C9_Witness ==
    /\ dOut # <<>>
    /\ Len(dIn[1]) = 2
    /\ Len(dIn[1][2]) > 2
    /\ dIn[1][2][2] # dIn[1][2][1]
    /\ dOut[1][4][1] # 0

\* C10: MUSE_V2.fit on univariate input issues the univariate warning, for
\* every value of use_first_differences.
C10_UnivariateWarns ==
    (variant = "MUSE" /\ X # NoX /\ X.c = 1) => warned

\* the case of C10 without first differences
C10_UnivariateWarnsWithoutDifferences ==
    (variant = "MUSE" /\ X # NoX /\ X.c = 1 /\ ~use_first_differences) => warned

C11_DenseIffFirstBlockDense ==
    mOut # <<>> => (mOut.how = "concatenate" <=> mIn[1].kind = "dense")

\* C12: with a capped feature selection, the matrix a fit builds has at most
\* max_feature_count columns, for every ensemble size, channel count and set
\* of first-difference options.
C12_TotalWithinMaxFeatureCount ==
    bOut # <<>> => bOut.total_features_count <= bIn.max_feature_count

\* what the caps give: MUSE_V2 stays within max_feature_count, WEASEL_V2
\* within max_feature_count once per first-difference option
C12_TotalWithinCaps ==
    bOut # <<>> =>
        bOut.total_features_count <=
            IF bIn.variant = "MUSE" THEN bIn.max_feature_count
            ELSE Len(bIn.use_first_differences) * bIn.max_feature_count

\* the state a fit leaves for inference
TrainedState ==
    <<SFA_transformers, clf, total_features_count, ensemble_size, max_window,
      window_sizes>>

\* C13: a step of a predict call leaves the stored transformer list, the
\* fitted classifier, total_features_count, ensemble_size, max_window and
\* window_sizes as they were, and a call that completes, in whatever
\* interleaving with the other calls, returns what it returns run alone.
C13_PredictReadOnly ==
    [][calls' # calls =>
          /\ UNCHANGED TrainedState
          /\ \A k \in CallIds :
                (calls'[k].pc = "done" /\ calls[k].pc # "done") =>
                    calls'[k].result = PredictAlone(calls'[k].c)]_vars

\* a call that returned labels after overlapping with another call, which is
\* past its first transformer
C13_Witness ==
    /\ calls[1].pc = "done"
    /\ calls[1].overlapped
    /\ calls[1].result.kind = "labels"
    /\ calls[2].pc = "transform"
    /\ calls[2].pos > 1
    /\ Len(SFA_transformers) >= 2

\* the frame of C13 on the _transform_words calls of the classifier objects
C13_TransformWordsReadOnly ==
    [][(bag' # bag \/ Xpred' # Xpred) /\ Xpred' # 0 => UNCHANGED TrainedState]_vars

C14_WitnessArgmax ==
    /\ pOut # <<>>
    /\ ~pIn.one_column
    /\ pIn.scores = <<<<-1, 0, 1>>>>
    /\ pOut = <<"C">>

\* C15: a sampled configuration with 2 <= window_size <= series_length has a
\* dilated window inside the series, (window_size - 1) * dilation + 1 <=
\* series_length, that is dilation <= floor((series_length - 1) /
\* (window_size - 1)), and dilation 1 when window_size = series_length.
C15_DilatedWindowFits ==
    (/\ sOut # <<>>
     /\ 2 <= sOut.window_size
     /\ sOut.window_size <= sIn.series_length) =>
        /\ (sOut.window_size - 1) * sOut.dilation + 1 <= sIn.series_length
        /\ sOut.dilation <= (sIn.series_length - 1) \div (sOut.window_size - 1)
        /\ sOut.window_size = sIn.series_length => sOut.dilation = 1

\* a dilation above 1 whose dilated window ends on the last point of the series
C15_Witness ==
    /\ sOut # <<>>
    /\ 2 < sOut.window_size
    /\ sOut.window_size < sIn.series_length
    /\ sOut.dilation > 1
    /\ (sOut.window_size - 1) * sOut.dilation + 1 = sIn.series_length

\* a window as long as the series, sampled from a range of several windows
C15_WitnessFullWindow ==
    /\ sOut # <<>>
    /\ sIn.min_window < sIn.max_window
    /\ sOut.window_size = sIn.series_length
    /\ sOut.dilation = 1

\* C15 on the configurations the tasks of a fit sample
C15_InFit ==
    \A i \in DOMAIN tasks :
        (Sampled(i) /\ 2 <= tasks[i].cfg.window_size
                    /\ tasks[i].cfg.window_size <= series_length) =>
            (tasks[i].cfg.window_size - 1) * tasks[i].cfg.dilation + 1 <= series_length

=============================================================================
